---- MODULE Spec2Model ----
(***************************************************************************)
(* Conway's Game of Life on a toroidal grid: the Universe of src/lib.rs.   *)
(* The state is the Universe struct (width, height, cells) together with   *)
(* the locals of a running tick() call (next, row) and the values the      *)
(* calls hand back (rendered) or compute on the way (calls, sums,          *)
(* live_neighbors).                                                        *)
(*                                                                         *)
(* Spec      the Universe as Universe::new builds it (64 x 64), advanced   *)
(*           by tick() and read by render().                               *)
(* SpecGrid  the same methods applied to Universe values of other          *)
(*           dimensions: tick, live_neighbor_count and fmt read the        *)
(*           dimensions from self and are functions of (width, height,     *)
(*           cells).                                                       *)
(***************************************************************************)
EXTENDS Integers, Sequences, FiniteSets, TLC

VARIABLES
    width,          \* Universe.width
    height,         \* Universe.height
    cells,          \* Universe.cells, a Vec<Cell>; cells[i + 1] is index i
    next,           \* tick's local `next`
    row,            \* tick's outer loop variable
    pc,             \* "idle" | "loop" | "commit" | "panicked"
    ticks,          \* number of completed tick() calls
    ctor,           \* <<init_state>> when built by Universe::new, else <<>>
    orig,           \* the cells the Universe was constructed with
    prev,           \* self.cells as it was when the running/last tick began
    rendered,       \* the String returned by the last render(), <<>> if none
    calls,          \* the get_index calls of the last row of tick, by column
    sums,           \* the u32 sums and products computed in that row
    live_neighbors  \* tick's local `live_neighbors` in that row, by column

vars == <<width, height, cells, next, row, pc, ticks, ctor, orig, prev,
          rendered, calls, sums, live_neighbors>>

----------------------------------------------------------------------------
(* Bounds of the model *)

MaxTicks == 3       \* tick() calls per behaviour
MaxMode == 2        \* init_state ranges over 0..MaxMode and one large value
MaxSeed == 2        \* random sources offered to mode 1
DrawScale == 10     \* Math.random() is modelled in steps of 1/DrawScale
MinDim == 3         \* smallest dimension of the grids of SpecGrid
MaxDim == 6         \* largest dimension of the grids of SpecGrid
MaxFullCells == 12  \* grids of at most this many cells are enumerated fully

----------------------------------------------------------------------------
(* Cell and the integer types *)

Dead == 0
Alive == 1

\* The model's integers are 32-bit signed: a u32 computation that stays
\* below IntLimit has not wrapped.
IntLimit == (65536 * 16384 - 1) * 2 + 1

LargeMode == IntLimit

U8 == 256

----------------------------------------------------------------------------
(* Universe::new *)

NewWidth == 64
NewHeight == 64

\* Variant: row and column exchanged.
helperTransposed(r, c) == c * NewWidth + r

helper(r, c) == r * NewWidth + c

GunCoords ==
    << <<6, 1>>, <<6, 2>>, <<7, 1>>, <<7, 2>>, <<6, 11>>, <<7, 11>>,
       <<8, 11>>, <<5, 12>>, <<9, 12>>, <<4, 13>>, <<10, 13>>, <<4, 14>>,
       <<10, 14>>, <<7, 15>>, <<5, 16>>, <<9, 16>>, <<6, 17>>, <<7, 17>>,
       <<8, 17>>, <<7, 18>>, <<4, 21>>, <<5, 21>>, <<6, 21>>, <<4, 22>>,
       <<5, 22>>, <<6, 22>>, <<3, 23>>, <<7, 23>>, <<2, 25>>, <<3, 25>>,
       <<7, 25>>, <<8, 25>>, <<4, 35>>, <<4, 36>>, <<5, 35>>, <<5, 36>> >>

\* The indices the array's map() writes, in order.
GunIndices == [k \in 1..Len(GunCoords) |-> helper(GunCoords[k][1], GunCoords[k][2])]

\* _cells[helper(row, col)] = Cell::Alive panics on an index out of range.
GunPanics == \E k \in 1..Len(GunIndices) : GunIndices[k] >= NewWidth * NewHeight

GunCells ==
    [i \in 1..(NewWidth * NewHeight) |->
        IF \E k \in 1..Len(GunIndices) : GunIndices[k] = i - 1
        THEN Alive ELSE Dead]

\* js_sys::Math::random(): the i-th draw of source `seed`, in 1/DrawScale.
\* Source 0 always draws 0, source 1 always draws the largest value, the
\* others scatter.
Draw(seed, i) ==
    CASE seed = 0 -> 0
      [] seed = 1 -> DrawScale - 1
      [] OTHER -> (i * i * seed + 7 * i + (i \div NewWidth) + seed) % DrawScale

RandomCells(seed) ==
    [i \in 1..(NewWidth * NewHeight) |->
        IF 2 * Draw(seed, i - 1) < DrawScale THEN Alive ELSE Dead]

\* Variant: the range written 0..=width * height.
DefaultCellsInclusive ==
    [i \in 1..(NewWidth * NewHeight + 1) |->
        IF (i - 1) % 2 = 0 \/ (i - 1) % 7 = 0 THEN Alive ELSE Dead]

\* Variant: && in place of ||.
DefaultCellsAnd ==
    [i \in 1..(NewWidth * NewHeight) |->
        IF (i - 1) % 2 = 0 /\ (i - 1) % 7 = 0 THEN Alive ELSE Dead]

DefaultCells ==
    [i \in 1..(NewWidth * NewHeight) |->
        IF (i - 1) % 2 = 0 \/ (i - 1) % 7 = 0 THEN Alive ELSE Dead]

NewCells(init_state, seed) ==
    CASE init_state = 0 -> GunCells
      [] init_state = 1 -> RandomCells(seed)
      [] OTHER -> DefaultCells

NewPanics(init_state) == init_state = 0 /\ GunPanics

Modes == (0..MaxMode) \cup {LargeMode}

Seeds == 0..MaxSeed

----------------------------------------------------------------------------
(* Universe::get_index and Universe::live_neighbor_count *)

get_index(r, c) == r * width + c

DeltaRows == <<height - 1, 0, 1>>

\* Variant: the column offsets taken from the height.
DeltaColsFromHeight == <<height - 1, 0, 1>>

DeltaCols == <<width - 1, 0, 1>>

\* Variant: without the `continue`, the cell counts itself.
DeltaPairsAll ==
    [k \in 1..9 |-> <<DeltaRows[((k - 1) \div 3) + 1], DeltaCols[((k - 1) % 3) + 1]>>]

\* The (delta_row, delta_col) pairs the two loops visit, in order, without
\* those the `continue` skips.
DeltaPairs ==
    SelectSeq([k \in 1..9 |-> <<DeltaRows[((k - 1) \div 3) + 1],
                                DeltaCols[((k - 1) % 3) + 1]>>],
              LAMBDA d : ~(d[1] = 0 /\ d[2] = 0))

\* Variant: the sums are not reduced modulo the dimensions.
NeighborCallNoWrap(r, c, d) ==
    LET neighbor_row == r + d[1]
        neighbor_col == c + d[2]
    IN  [row |-> neighbor_row, column |-> neighbor_col,
         idx |-> get_index(neighbor_row, neighbor_col),
         sum_row |-> r + d[1], sum_col |-> c + d[2],
         sum_idx |-> neighbor_row * width + neighbor_col]

\* One iteration of the inner loop: the neighbour's coordinates, the call
\* of get_index and the sums computed on the way.
NeighborCall(r, c, d) ==
    LET neighbor_row == (r + d[1]) % height
        neighbor_col == (c + d[2]) % width
    IN  [row |-> neighbor_row, column |-> neighbor_col,
         idx |-> get_index(neighbor_row, neighbor_col),
         sum_row |-> r + d[1], sum_col |-> c + d[2],
         sum_idx |-> neighbor_row * width + neighbor_col]

NeighborCalls(r, c) ==
    LET pairs == DeltaPairs
    IN  [k \in 1..Len(pairs) |-> NeighborCall(r, c, pairs[k])]

RECURSIVE CountFrom(_, _)
CountFrom(cs, k) ==
    IF k > Len(cs) THEN 0
    ELSE (cells[cs[k].idx + 1] + CountFrom(cs, k + 1)) % U8

\* self.cells[idx] panics on an index out of range.
CountPanics(cs) == \E k \in 1..Len(cs) : cs[k].idx >= Len(cells)

live_neighbor_count(r, c) ==
    LET cs == NeighborCalls(r, c) IN CountFrom(cs, 1)

----------------------------------------------------------------------------
(* Universe::tick *)

\* Variant: overpopulation only from 5 neighbours on.
next_cellOver4(cell, n) ==
    IF cell = Alive /\ n < 2 THEN Dead
    ELSE IF cell = Alive /\ (n = 2 \/ n = 3) THEN Alive
    ELSE IF cell = Alive /\ n > 4 THEN Dead
    ELSE IF cell = Dead /\ n = 3 THEN Alive
    ELSE cell

\* Variant: reproduction with 2 neighbours.
next_cellBirth2(cell, n) ==
    IF cell = Alive /\ n < 2 THEN Dead
    ELSE IF cell = Alive /\ (n = 2 \/ n = 3) THEN Alive
    ELSE IF cell = Alive /\ n > 3 THEN Dead
    ELSE IF cell = Dead /\ n = 2 THEN Alive
    ELSE cell

\* The match of tick, arm by arm.
next_cell(cell, n) ==
    IF cell = Alive /\ n < 2 THEN Dead
    ELSE IF cell = Alive /\ (n = 2 \/ n = 3) THEN Alive
    ELSE IF cell = Alive /\ n > 3 THEN Dead
    ELSE IF cell = Dead /\ n = 3 THEN Alive
    ELSE cell

\* let mut next = self.cells.clone(); and entry into the outer loop
TickBegin ==
    /\ pc = "idle"
    /\ ticks < MaxTicks
    /\ next' = cells
    /\ prev' = cells
    /\ row' = 0
    /\ pc' = IF height > 0 THEN "loop" ELSE "commit"
    /\ rendered' = <<>>
    /\ calls' = <<>>
    /\ sums' = {}
    /\ live_neighbors' = <<>>
    /\ UNCHANGED <<width, height, cells, ticks, ctor, orig>>

\* The get_index calls of the inner loop's iteration for (r, c): the one of
\* tick itself, then those of live_neighbor_count.
CellCalls(r, c) ==
    <<[row |-> r, column |-> c, idx |-> get_index(r, c),
       sum_row |-> r, sum_col |-> c, sum_idx |-> r * width + c]>>
        \o NeighborCalls(r, c)

\* next[idx] = next_cell, for the columns k.. of the row, in order.
RECURSIVE WriteRow(_, _, _, _)
WriteRow(nx, rowcalls, counts, k) ==
    IF k > Len(rowcalls) THEN nx
    ELSE LET idx == rowcalls[k][1].idx
         IN  WriteRow([nx EXCEPT ![idx + 1] = next_cell(cells[idx + 1], counts[k])],
                      rowcalls, counts, k + 1)

\* Variant: self.cells is replaced at the end of every row.
TickRowCommitsEarly ==
    /\ pc = "loop"
    /\ calls' = [k \in 1..width |-> CellCalls(row, k - 1)]
    /\ sums' = UNION {{calls'[k][j].sum_row, calls'[k][j].sum_col,
                       calls'[k][j].sum_idx} :
                          k \in 1..width, j \in 1..Len(calls'[1])}
    /\ IF \E k \in 1..width :
              CountPanics(calls'[k]) \/ calls'[k][1].idx >= Len(next)
       THEN /\ pc' = "panicked"
            /\ UNCHANGED <<next, row, live_neighbors, cells>>
       ELSE /\ live_neighbors' = [k \in 1..width |-> CountFrom(Tail(calls'[k]), 1)]
            /\ next' = WriteRow(next, calls', live_neighbors', 1)
            /\ cells' = next'
            /\ pc' = IF row + 1 < height THEN "loop" ELSE "commit"
            /\ row' = IF row + 1 < height THEN row + 1 ELSE row
    /\ UNCHANGED <<width, height, ticks, ctor, orig, prev, rendered>>

\* One iteration of the outer loop of tick: the inner loop over the columns
\* of row `row`.
TickRow ==
    /\ pc = "loop"
    /\ calls' = [k \in 1..width |-> CellCalls(row, k - 1)]
    /\ sums' = UNION {{calls'[k][j].sum_row, calls'[k][j].sum_col,
                       calls'[k][j].sum_idx} :
                          k \in 1..width, j \in 1..Len(calls'[1])}
    /\ IF \E k \in 1..width :
              CountPanics(calls'[k]) \/ calls'[k][1].idx >= Len(next)
       THEN /\ pc' = "panicked"
            /\ UNCHANGED <<next, row, live_neighbors>>
       ELSE /\ live_neighbors' = [k \in 1..width |-> CountFrom(Tail(calls'[k]), 1)]
            /\ next' = WriteRow(next, calls', live_neighbors', 1)
            /\ pc' = IF row + 1 < height THEN "loop" ELSE "commit"
            /\ row' = IF row + 1 < height THEN row + 1 ELSE row
    /\ UNCHANGED <<width, height, cells, ticks, ctor, orig, prev, rendered>>

\* self.cells = next;
TickCommit ==
    /\ pc = "commit"
    /\ cells' = next
    /\ next' = <<>>
    /\ ticks' = ticks + 1
    /\ pc' = "idle"
    /\ UNCHANGED <<width, height, row, ctor, orig, prev, rendered,
                   calls, sums, live_neighbors>>

----------------------------------------------------------------------------
(* Universe::render and Display::fmt *)

DeadGlyph == 9723
AliveGlyph == 9724
Newline == 10

\* slice::chunks(n): consecutive pieces of n elements, the last one shorter
\* when n does not divide the length.
RECURSIVE chunks(_, _)
chunks(s, n) ==
    IF Len(s) = 0 THEN <<>>
    ELSE IF Len(s) <= n THEN <<s>>
    ELSE <<SubSeq(s, 1, n)>> \o chunks(SubSeq(s, n + 1, Len(s)), n)

symbol(cell) == IF cell = Dead THEN DeadGlyph ELSE AliveGlyph

\* Variant: no writeln! after the row.
FmtLineNoBreak(line) == [k \in 1..Len(line) |-> symbol(line[k])]

\* The inner loop of fmt and its writeln!.
FmtLine(line) == [k \in 1..Len(line) |-> symbol(line[k])] \o <<Newline>>

RECURSIVE FmtLines(_, _)
FmtLines(ls, k) ==
    IF k > Len(ls) THEN <<>> ELSE FmtLine(ls[k]) \o FmtLines(ls, k + 1)

fmt == FmtLines(chunks(cells, width), 1)

Render ==
    /\ pc = "idle"
    /\ rendered' = fmt
    /\ UNCHANGED <<width, height, cells, next, row, pc, ticks, ctor,
                   orig, prev, calls, sums, live_neighbors>>

----------------------------------------------------------------------------
(* The program: Universe::new, then tick() and render() in any order *)

Init ==
    \E init_state \in Modes, seed \in Seeds :
        /\ width = NewWidth
        /\ height = NewHeight
        /\ cells = NewCells(init_state, seed)
        /\ orig = cells
        /\ ctor = <<init_state>>
        /\ pc = IF NewPanics(init_state) THEN "panicked" ELSE "idle"
        /\ next = <<>>
        /\ prev = <<>>
        /\ row = 0
        /\ ticks = 0
        /\ rendered = <<>>
        /\ calls = <<>>
        /\ sums = {}
        /\ live_neighbors = <<>>

Next == TickBegin \/ TickRow \/ TickCommit \/ Render

Spec == Init /\ [][Next]_vars

----------------------------------------------------------------------------
(* The methods on Universe values of other dimensions *)

GridOf(w, h, S) == [i \in 1..(w * h) |-> IF (i - 1) \in S THEN Alive ELSE Dead]

\* Three cells in a row, centred on (r, c), across the edge where needed.
HBlinker(w, h, r, c) == {r * w + ((c + w - 1) % w), r * w + c, r * w + ((c + 1) % w)}

\* Three cells in a column, centred on (r, c).
VBlinker(w, h, r, c) == {((r + h - 1) % h) * w + c, r * w + c, ((r + 1) % h) * w + c}

\* A 2 x 2 block with its upper left cell at (r, c).
Block(w, h, r, c) ==
    {r * w + c, r * w + ((c + 1) % w),
     ((r + 1) % h) * w + c, ((r + 1) % h) * w + ((c + 1) % w)}

InputAlive(w, h) ==
    IF w * h <= MaxFullCells
    THEN SUBSET (0..(w * h - 1))
    ELSE {HBlinker(w, h, r, c) : r \in 0..(h - 1), c \in 0..(w - 1)}
         \cup {Block(w, h, r, c) : r \in 0..(h - 1), c \in 0..(w - 1)}

InitGrid ==
    \E w \in MinDim..MaxDim, h \in MinDim..MaxDim :
        \E S \in InputAlive(w, h) :
            /\ width = w
            /\ height = h
            /\ cells = GridOf(w, h, S)
            /\ orig = cells
            /\ ctor = <<>>
            /\ pc = "idle"
            /\ next = <<>>
            /\ prev = <<>>
            /\ row = 0
            /\ ticks = 0
            /\ rendered = <<>>
            /\ calls = <<>>
            /\ sums = {}
            /\ live_neighbors = <<>>

SpecGrid == InitGrid /\ [][Next]_vars

----------------------------------------------------------------------------
(* Reference definitions the properties are stated with *)

\* The 8 positions around (r, c) on the torus of w columns and h rows.
RefNeighbors(w, h, r, c) ==
    {<<(r + dr) % h, (c + dc) % w>> : dr \in {-1, 0, 1}, dc \in {-1, 0, 1}}
        \ {<<(r + 0) % h, (c + 0) % w>>}

Offsets == {d \in {-1, 0, 1} \X {-1, 0, 1} : d # <<0, 0>>}

\* The number of Alive cells of grid g among those positions.
RefCount(g, w, h, r, c) ==
    Cardinality({d \in Offsets :
                    g[((r + d[1]) % h) * w + ((c + d[2]) % w) + 1] = Alive})

\* The rule table of the game.
RuleTable(state, n) ==
    CASE state = Alive /\ n < 2 -> Dead
      [] state = Alive /\ n \in {2, 3} -> Alive
      [] state = Alive /\ n > 3 -> Dead
      [] state = Dead /\ n = 3 -> Alive
      [] OTHER -> Dead

\* The generation that follows grid g.
RefGeneration(g, w, h) ==
    [i \in 1..Len(g) |->
        RuleTable(g[i], RefCount(g, w, h, (i - 1) \div w, (i - 1) % w))]

AliveSet(g) == {i \in 0..(Len(g) - 1) : g[i + 1] = Alive}

Idle == pc = "idle"

InTick == pc \in {"loop", "commit"}

----------------------------------------------------------------------------
(* Properties *)

\* C1: in every reachable state (after Universe::new for any mode and any
\* outcome of the random draws, and during and after any number of ticks)
\* the number of cells equals width * height.
C1_LengthInvariant == Len(cells) = width * height

C1_Witness == Idle /\ ticks >= 2 /\ ctor = <<1>> /\ Len(cells) = 64 * 64

\* C2: after one tick() every cell holds the rule table's result for its
\* pre-tick state and its pre-tick live neighbour count, and the match of
\* tick agrees with the rule table on every (state, n) with 0 <= n <= 8.
C2_RuleTable ==
    /\ \A state \in {Dead, Alive}, n \in 0..8 :
           next_cell(state, n) = RuleTable(state, n)
    /\ (Idle /\ ticks > 0) =>
           \A i \in 1..Len(prev) :
               cells[i] = RuleTable(prev[i],
                                    RefCount(prev, width, height,
                                             (i - 1) \div width, (i - 1) % width))

\* A birth and a survival in one tick.
C2_Witness ==
    /\ Idle /\ ticks > 0
    /\ \E i \in 1..Len(prev) :
           /\ prev[i] = Dead /\ cells[i] = Alive
           /\ RefCount(prev, width, height, (i - 1) \div width, (i - 1) % width) = 3
    /\ \E i \in 1..Len(prev) :
           /\ prev[i] = Alive /\ cells[i] = Alive
           /\ RefCount(prev, width, height, (i - 1) \div width, (i - 1) % width) = 2
    /\ \E i \in 1..Len(prev) :
           /\ prev[i] = Alive /\ cells[i] = Dead
           /\ RefCount(prev, width, height, (i - 1) \div width, (i - 1) % width) < 2

\* C3: on a grid of at least 3 x 3, live_neighbor_count(row, col) is the
\* number of Alive cells among the 8 positions ((row + dr) mod height,
\* (col + dc) mod width); the cell itself is not among the positions read,
\* and for (0, 0) the positions read include (height-1, width-1),
\* (height-1, 0) and (0, width-1).
C3_NeighborCount ==
    (width >= 3 /\ height >= 3 /\ pc # "panicked") =>
        /\ Idle =>
               \A r \in 0..(height - 1), c \in 0..(width - 1) :
                   LET cs == NeighborCalls(r, c)
                       read == {<<cs[k].row, cs[k].column>> : k \in 1..Len(cs)}
                   IN  /\ live_neighbor_count(r, c)
                              = RefCount(cells, width, height, r, c)
                       /\ read = RefNeighbors(width, height, r, c)
                       /\ Len(cs) = 8
                       /\ Cardinality(read) = 8
                       /\ <<r, c>> \notin read
                       /\ (r = 0 /\ c = 0) =>
                              {<<height - 1, width - 1>>, <<height - 1, 0>>,
                               <<0, width - 1>>} \subseteq read
        /\ InTick =>
               \A k \in 1..Len(live_neighbors) :
                   live_neighbors[k] = RefCount(cells, width, height,
                                                calls[k][1].row, calls[k][1].column)

\* tick has just counted the neighbours of the corner cell (0, 0), and they
\* lie on the opposite edges.
C3_Witness ==
    /\ InTick /\ Len(live_neighbors) = width
    /\ calls[1][1].row = 0 /\ calls[1][1].column = 0
    /\ width > 3 /\ height > 3 /\ width # height
    /\ live_neighbors[1] >= 2
    /\ cells[(height - 1) * width + 1] = Alive

\* C4: Universe::new does not fail, and for every mode other than 0 and 1
\* it returns the 64 x 64 grid whose cell i is Alive exactly when i is
\* divisible by 2 or by 7.
C4_DefaultPattern ==
    ctor # <<>> =>
        /\ (ticks = 0 /\ prev = <<>>) => Idle
        /\ ctor[1] \notin {0, 1} =>
               /\ width = 64 /\ height = 64
               /\ DOMAIN orig = 1..4096
               /\ \A i \in 0..4095 :
                      orig[i + 1] = IF i % 2 = 0 \/ i % 7 = 0 THEN Alive ELSE Dead

C4_Witness ==
    /\ ctor = <<LargeMode>> /\ Idle /\ ticks = 0 /\ cells = orig
    /\ cells[22] = Alive /\ cells[23] = Alive /\ cells[24] = Dead

\* The fixed pattern of mode 0, row by row: the columns that are Alive.
GoldenRow(r) ==
    CASE r = 2 -> {25}
      [] r = 3 -> {23, 25}
      [] r = 4 -> {13, 14, 21, 22, 35, 36}
      [] r = 5 -> {12, 16, 21, 22, 35, 36}
      [] r = 6 -> {1, 2, 11, 17, 21, 22}
      [] r = 7 -> {1, 2, 11, 15, 17, 18, 23, 25}
      [] r = 8 -> {11, 17, 25}
      [] r = 9 -> {12, 16}
      [] r = 10 -> {13, 14}
      [] OTHER -> {}

\* C5: Universe::new(0) returns the 64 x 64 grid in which exactly 36 cells
\* are Alive, those at row * 64 + col for the coordinates of the list, which
\* are pairwise distinct and in range; every other cell is Dead.
C5_GliderGun ==
    (ctor = <<0>>) =>
        /\ width = 64 /\ height = 64
        /\ DOMAIN orig = 1..4096
        /\ Cardinality(AliveSet(orig)) = 36
        /\ \A r \in 0..63, c \in 0..63 :
               orig[r * 64 + c + 1] = Alive <=> c \in GoldenRow(r)
        /\ AliveSet(orig) = {GunCoords[k][1] * 64 + GunCoords[k][2] :
                                k \in 1..Len(GunCoords)}
        /\ Len(GunCoords) = 36
        /\ \A k \in 1..Len(GunCoords) :
               GunCoords[k][1] \in 0..63 /\ GunCoords[k][2] \in 0..63
        /\ \A j, k \in 1..Len(GunCoords) : j # k => GunCoords[j] # GunCoords[k]

C5_Witness == ctor = <<0>> /\ Idle /\ ticks = 0 /\ cells = orig /\ cells[6 * 64 + 2] = Alive

\* C6: on a grid of at least 5 x 5 whose only Alive cells are 3 consecutive
\* cells of one row, after an odd number of ticks the only Alive cells are
\* the 3 consecutive cells of the column through the same middle cell, and
\* after an even number of ticks the grid is the original one.
C6_Blinker ==
    \A r \in 0..(height - 1), c \in 0..(width - 1) :
        (/\ width >= 5 /\ height >= 5
         /\ AliveSet(orig) = HBlinker(width, height, r, c)
         /\ Idle) =>
            /\ ticks % 2 = 1 => AliveSet(cells) = VBlinker(width, height, r, c)
            /\ ticks % 2 = 0 => cells = orig

\* A blinker across the wraparound edge, three ticks on.
C6_Witness ==
    /\ width >= 5 /\ height >= 5 /\ width # height
    /\ AliveSet(orig) = HBlinker(width, height, 0, 0)
    /\ Idle /\ ticks = 3
    /\ AliveSet(cells) = {0, width, (height - 1) * width}

\* C7: on a grid of at least 4 x 4 whose only Alive cells form a 2 x 2
\* block, tick() changes no cell: the grid, and the sequence tick is about
\* to store, equal the original grid after any number of ticks.
C7_BlockStillLife ==
    \A r \in 0..(height - 1), c \in 0..(width - 1) :
        (/\ width >= 4 /\ height >= 4
         /\ AliveSet(orig) = Block(width, height, r, c)) =>
            /\ cells = orig
            /\ pc = "commit" => next = orig
            /\ pc # "panicked"

\* A block across the corner, two ticks on.
C7_Witness ==
    /\ width >= 4 /\ height >= 4
    /\ AliveSet(orig) = Block(width, height, height - 1, width - 1)
    /\ Idle /\ ticks >= 2
    /\ AliveSet(cells) = {0, width - 1, (height - 1) * width, height * width - 1}

\* C8: render() returns height lines of width glyphs, each followed by one
\* line break and nothing else; the glyph at line r, position c is the Alive
\* glyph exactly when cells[r * width + c] is Alive; render() leaves the
\* grid as it is.
C8_RenderText ==
    rendered # <<>> =>
        /\ Idle
        /\ Len(rendered) = height * (width + 1)
        /\ \A r \in 0..(height - 1) :
               /\ rendered[r * (width + 1) + width + 1] = Newline
               /\ \A c \in 0..(width - 1) :
                      rendered[r * (width + 1) + c + 1] =
                          IF cells[r * width + c + 1] = Alive
                          THEN AliveGlyph ELSE DeadGlyph
        /\ (ticks = 0 => cells = orig)
        /\ (ticks > 0 => cells = RefGeneration(prev, width, height))

C8_Witness ==
    /\ rendered # <<>> /\ ticks >= 1 /\ ctor = <<0>>
    /\ \E k \in 1..Len(rendered) : rendered[k] = AliveGlyph
    /\ \E k \in 1..Len(rendered) : rendered[k] = DeadGlyph

\* C9: while tick() runs, the grid's cell sequence equals the generation it
\* had when the tick began; it changes only in the one step that ends the
\* tick, and then to the whole next generation.
C9_Snapshot ==
    /\ InTick => cells = prev
    /\ (Idle /\ ticks > 0) => cells = RefGeneration(prev, width, height)

\* The tick is half way and has already written cells that differ.
C9_Witness ==
    /\ pc = "loop" /\ row > 0 /\ next # cells /\ cells = prev /\ ticks >= 1

\* C10: in every tick() every get_index call has row < height and
\* column < width, every index is below the number of cells, the sums
\* row + delta_row, column + delta_col and row * width + column do not wrap,
\* and the neighbour count is within 0..8.
C10_IndexSafety ==
    /\ pc # "panicked"
    /\ \A k \in 1..Len(calls) :
           /\ Len(calls[k]) = 9
           /\ \A j \in 1..Len(calls[k]) :
                  /\ calls[k][j].row \in 0..(height - 1)
                  /\ calls[k][j].column \in 0..(width - 1)
                  /\ calls[k][j].idx \in 0..(Len(cells) - 1)
                  /\ calls[k][j].idx = calls[k][j].sum_idx
    /\ \A s \in sums : s \in 0..(IntLimit - 1)
    /\ \A k \in 1..Len(live_neighbors) : live_neighbors[k] \in 0..8
    /\ (InTick /\ calls # <<>>) => Len(calls) = width /\ Len(live_neighbors) = width

\* The last row of an all-Alive grid: its neighbours wrap in both directions.
C10_Witness ==
    /\ pc = "commit" /\ Len(calls) = width
    /\ calls[width][1].row = height - 1 /\ calls[width][1].column = width - 1
    /\ \E j \in 1..9 : calls[width][j].row = 0 /\ calls[width][j].column = 0
    /\ height + height - 2 \in sums
    /\ live_neighbors[width] = 8

====
